---- MODULE Spec2Model ----
(***************************************************************************)
(* A model of HellesClient (src/src/index.ts): the background time-sync    *)
(* loop, the trace-registration cache, logTraceEvent, deleteTrace and the  *)
(* routing of their errors.  Every network call is a suspension point: a   *)
(* call is one action up to its first request and one action per response. *)
(***************************************************************************)
EXTENDS Integers, Sequences, FiniteSets, TLC

(***************************************************************************)
(* Bounds of the model.                                                    *)
(***************************************************************************)
\* logTraceEvent / deleteTrace calls that may be suspended at the same time
MaxCalls == 2
\* logTraceEvent / deleteTrace calls started over one run
MaxOps == 2
\* calls made one after another over one run (SpecSeq)
MaxSeqOps == 3
\* calls made one after another while the first sync attempt runs (SpecObserved)
MaxObservedOps == 2
\* calls started in a run of SpecBackground
MaxBackgroundOps == 2
\* SpecBackground follows the sync loop while its interval is at most this
MaxBackgroundIntervalMs == 30000

(***************************************************************************)
(* JavaScript numbers.  The timestamps of the program (about 1.7 * 10^12)  *)
(* exceed the integers of the model checker, and rtt / 2 may be a half, so *)
(* a number is kept exactly as hi * 10^9 + lo + half / 2 with              *)
(* 0 <= lo < 10^9 and half in {0, 1}; the representation is unique.        *)
(***************************************************************************)
Giga == 1000 * 1000 * 1000

Ms(hi, lo) == [hi |-> hi, lo |-> lo, half |-> 0]

\* a + b
NumAdd(a, b) ==
  LET h == a.half + b.half
      l == a.lo + b.lo + (h \div 2)
  IN  [hi |-> a.hi + b.hi + (l \div Giga), lo |-> l % Giga, half |-> h % 2]

\* -a
NumNeg(a) ==
  LET l == 0 - (a.lo + a.half)
  IN  [hi |-> (0 - a.hi) + (l \div Giga), lo |-> l % Giga, half |-> a.half]

\* a - b
NumSub(a, b) == NumAdd(a, NumNeg(b))

\* the mutant of NumHalf: an integer division, which drops the half millisecond
NumHalfTruncated(a) ==
  [hi |-> a.hi \div 2,
   lo |-> ((a.hi % 2) * (Giga \div 2)) + (a.lo \div 2),
   half |-> 0]

\* a / 2 for a whole number a (a difference of two clock readings)
NumHalf(a) ==
  [hi |-> a.hi \div 2,
   lo |-> ((a.hi % 2) * (Giga \div 2)) + (a.lo \div 2),
   half |-> a.lo % 2]

\* a < b
NumLt(a, b) ==
  \/ a.hi < b.hi
  \/ a.hi = b.hi /\ a.lo < b.lo
  \/ a.hi = b.hi /\ a.lo = b.lo /\ a.half < b.half

\* a > b
NumGt(a, b) == NumLt(b, a)

\* null, or an absent (undefined) number
Null == [null |-> TRUE]

(***************************************************************************)
(* Program constants.                                                      *)
(***************************************************************************)
BASE_SYNC_INTERVAL_MS == 30000
BACKOFF_STEP_MS == 15000
MAX_SYNC_INTERVAL_MS == 180000

\* the window of accepted event timestamps: 1665000000000 .. 2565000000000
MinEventTimestamp == Ms(1665, 0)
MaxEventTimestamp == Ms(2565, 0)

(***************************************************************************)
(* Strings.  A trace key is a sequence of characters, so that the suffix   *)
(* is appended and toUpperCase works character by character.  Other        *)
(* strings (sender, API key) are only tested for being set.                *)
(***************************************************************************)
Undefined == "undefined"

\* JavaScript truthiness of an optional string
Truthy(s) == s # Undefined /\ s # ""

UpperChar(c) == CASE c = "a" -> "A" [] c = "t" -> "T" [] OTHER -> c

\* the mutant of ToUpperCase: the key is sent and evicted as it is
ToUpperCaseIdentity(s) == s

\* String.prototype.toUpperCase
ToUpperCase(s) == [i \in 1..Len(s) |-> UpperChar(s[i])]

TraceKeys == {<<>>, <<"A">>}
Suffixes == {<<>>, <<"t">>}
Senders == {Undefined, "", "svc"}

\* every key that can reach the cache or a request
Keys == {k \o s : k \in TraceKeys, s \in Suffixes}
          \cup {ToUpperCase(k \o s) : k \in TraceKeys, s \in Suffixes}

(***************************************************************************)
(* The values the environment supplies.                                    *)
(***************************************************************************)
\* readings of Date.now()
ClockReadings == {Ms(1700, 0), Ms(1700, 51)}

\* eventTimestampUtc as passed by callers or returned by eventTimestampFunc
Timestamps == {Ms(1664, 999999999), Ms(1665, 0), Ms(2565, 0), Ms(2565, 1)}

\* serverUtcMilliseconds as reported by GET /time
ServerTimes == {Ms(1700, 100), Ms(0, 0)}

\* the body of a /time response: not JSON, or JSON with a numeric
\* serverUtcMilliseconds or without one
TimeBodies ==
  {[json |-> FALSE, serverUtcMilliseconds |-> Null]}
    \cup [json : {TRUE}, serverUtcMilliseconds : ServerTimes \cup {Null}]

\* what GET /time comes back with: request() rejects (failed), or a response
TimeResponses == [failed : BOOLEAN, statusCode : {200, 500}, body : TimeBodies]

\* what a POST comes back with: request() rejects (failed), or a response
\* with a status code whose body parses as JSON or does not
Responses == [failed : BOOLEAN, statusCode : {200, 399, 400}, jsonBody : BOOLEAN]

Procs == 1..MaxCalls

\* the constructor's config: apiKey and defaults (L71-L89), immutable afterwards
Configs ==
  [apiKey : {Undefined, "key"},
   sender : {Undefined, "svc"},
   onError : BOOLEAN,
   traceSuffix : Suffixes,
   eventTimestampFunc : BOOLEAN]

VARIABLES
  config,            \* this.apiKey, this.defaults
  registeredTraces,  \* this.registeredTraces
  timeSync,          \* this.timeSync
  syncTask,          \* the sync loop: the attempts in flight, the timers pending
  syncHist,          \* what the sync loop has done so far (observation only)
  calls,             \* the logTraceEvent / deleteTrace calls in progress
  requests,          \* network calls issued so far, per endpoint and trace key
  last,              \* how the most recently completed call ended
  hist,              \* what has happened so far (observation only)
  probe              \* the arguments of the most recent call, where a
                     \* specification records them (observation only)

vars ==
  <<config, registeredTraces, timeSync, syncTask, syncHist, calls, requests, last,
    hist, probe>>

callVars == <<registeredTraces, calls, requests, last, hist>>
syncVars == <<timeSync, syncTask, syncHist>>

Idle == [pc |-> "idle", op |-> "none", key |-> <<>>, onError |-> FALSE]

\* a call starts in the first free slot
FreeSlot(p) == calls[p].pc = "idle" /\ \A q \in Procs : q < p => calls[q].pc # "idle"

NoCounts == [k \in Keys |-> 0]

Bump(f, k) == [f EXCEPT ![k] = @ + 1]

\* how a call ended: its error ("none": it returned the response body),
\* whether it was given a handler of its own, and where the error went: how
\* often each handler was invoked and whether the call rejected
Ended(op, error, onError, routed) ==
  [op |-> op, error |-> error, onError |-> onError,
   perCall |-> routed.perCall, default |-> routed.default, rejected |-> routed.rejected]

NotRouted == [perCall |-> 0, default |-> 0, rejected |-> FALSE]

\* the mutant of RouteError: the client-wide handler is asked first
RouteErrorDefaultFirst(onError, defaultOnError) ==
  IF defaultOnError THEN [perCall |-> 0, default |-> 1, rejected |-> FALSE]
  ELSE IF onError THEN [perCall |-> 1, default |-> 0, rejected |-> FALSE]
  ELSE [perCall |-> 0, default |-> 0, rejected |-> TRUE]

\* the catch blocks of logTraceEvent and deleteTrace: the handlers invoked
\* (and how often) and whether the error is rethrown
RouteError(onError, defaultOnError) ==
  IF onError THEN [perCall |-> 1, default |-> 0, rejected |-> FALSE]
  ELSE IF defaultOnError THEN [perCall |-> 0, default |-> 1, rejected |-> FALSE]
  ELSE [perCall |-> 0, default |-> 0, rejected |-> TRUE]

applyTraceSuffix(traceKey) ==
  IF config.traceSuffix # <<>> THEN traceKey \o config.traceSuffix ELSE traceKey

\* HellesClient.now(): Date.now() + this.timeSync.offset
now(clock) == NumAdd(clock, timeSync.offset)

\* the mutant of TimestampOutOfRange: the upper bound itself is rejected
TimestampOutOfRangeStrict(ts) ==
  \/ ~NumLt(ts, MaxEventTimestamp)
  \/ NumLt(ts, MinEventTimestamp)

TimestampOutOfRange(ts) ==
  \/ NumGt(ts, MaxEventTimestamp)
  \/ NumLt(ts, MinEventTimestamp)

\* no call recorded
NoProbe ==
  [op |-> "none", traceKey |-> <<>>, eventTimestampUtc |-> Null,
   eventSender |-> Undefined]

Init ==
  /\ config \in Configs
  /\ registeredTraces = {}
  /\ timeSync = [latency |-> Null, offset |-> Ms(0, 0), lastCheck |-> Null,
                 nextIntervalMs |-> BASE_SYNC_INTERVAL_MS]
  /\ syncTask = [phase |-> "request", isInitial |-> TRUE, sendTime |-> Ms(1700, 0),
                 delay |-> 0, inFlight |-> 1, timers |-> 0]
  /\ syncHist = [outcome |-> "none", wasInitial |-> FALSE, startupErrors |-> 0,
                 synced |-> Null]
  /\ calls = [p \in Procs |-> Idle]
  /\ requests = [traces |-> NoCounts, events |-> NoCounts, delete |-> NoCounts]
  /\ last = Ended("none", "none", FALSE, NotRouted)
  /\ hist = [started |-> 0, admitted |-> NoCounts, registered |-> NoCounts,
             evicted |-> NoCounts, overlapped |-> {}, anyOverlap |-> FALSE,
             netFailed |-> FALSE]
  /\ probe = NoProbe

\* a call of p ends with an error: the error is routed and the call is over
Fail(p, op, error, onError) ==
  /\ last' = Ended(op, error, onError, RouteError(onError, config.onError))
  /\ calls' = [calls EXCEPT ![p] = Idle]

\* a call of p returns the response body
Succeed(p, op) ==
  /\ last' = Ended(op, "none", FALSE, NotRouted)
  /\ calls' = [calls EXCEPT ![p] = Idle]

\* the mutant of IsRegistered: the cache is never consulted
IsRegisteredNever(key) == FALSE

\* the mutant of IsRegistered: a registration in flight counts as done
IsRegisteredOrPending(key) ==
  \/ key \in registeredTraces
  \/ \E q \in Procs : calls[q].pc = "register" /\ calls[q].key = key

\* this.registeredTraces.has(key)
IsRegistered(key) == key \in registeredTraces

\* the mutant of CacheAfterRegistration: the key is not remembered
CacheAfterRegistrationForgetful(key) == registeredTraces

\* the mutant of CacheAfterRegistration: the key is cached in the upper-cased
\* form deleteTrace evicts
CacheAfterRegistrationUpperCased(key) == registeredTraces \cup {ToUpperCase(key)}

\* this.registeredTraces.add(key)
CacheAfterRegistration(key) == registeredTraces \cup {key}

\* the mutant of CacheAfterDeletion: the whole cache is dropped
CacheAfterDeletionCleared(key) == {}

\* if (this.registeredTraces.has(key)) this.registeredTraces.delete(key)
CacheAfterDeletion(key) ==
  IF key \in registeredTraces THEN registeredTraces \ {key} ELSE registeredTraces

\* the mutant of RequestFailed: status 400 passes for a success
RequestFailedAbove400(r) == r.failed \/ r.statusCode > 400

\* a POST that throws or answers with response.statusCode >= 400
RequestFailed(r) == r.failed \/ r.statusCode >= 400

\* the mutant of DeleteTraceError: the API key is not required
DeleteTraceErrorKeyOnly(traceKey) ==
  IF traceKey = <<>> THEN "traceKey is required" ELSE "none"

\* the checks deleteTrace makes before its request (L343-L349)
DeleteTraceError(traceKey) ==
  IF ~Truthy(config.apiKey) THEN "API key is required for deleteTrace"
  ELSE IF traceKey = <<>> THEN "traceKey is required"
  ELSE "none"

LogInFlight(q) == calls[q].op = "logTraceEvent" /\ calls[q].pc # "idle"

(***************************************************************************)
(* logTraceEvent up to its first request (L224-L260, or L224-L293 when the *)
(* key is cached).  reading is what eventTimestampFunc returns when one is *)
(* configured, and what Date.now() reads in this.now() otherwise.          *)
(***************************************************************************)
LogTraceEvent(p, traceKey, eventTimestampUtc, eventSender, onError, reading) ==
  LET _traceKey == applyTraceSuffix(traceKey)
      defaultTimestamp == IF config.eventTimestampFunc THEN reading ELSE now(reading)
      _eventTimestampUtc ==
        IF eventTimestampUtc # Null THEN eventTimestampUtc ELSE defaultTimestamp
      _eventSender == IF Truthy(eventSender) THEN eventSender ELSE config.sender
      admit == [hist EXCEPT
                  !.started = @ + 1,
                  !.admitted = Bump(@, _traceKey),
                  !.overlapped = IF \E q \in Procs : LogInFlight(q) /\ calls[q].key = _traceKey
                                 THEN @ \cup {_traceKey} ELSE @,
                  !.anyOverlap = @ \/ \E q \in Procs : LogInFlight(q)]
  IN
  /\ FreeSlot(p)
  /\ IF TimestampOutOfRange(_eventTimestampUtc)
     THEN /\ Fail(p, "logTraceEvent", "eventTimestampUtc out of range", onError)
          /\ hist' = [hist EXCEPT !.started = @ + 1]
          /\ UNCHANGED <<registeredTraces, requests>>
     ELSE IF _eventSender = Undefined
     THEN /\ Fail(p, "logTraceEvent", "eventSender is required", onError)
          /\ hist' = [hist EXCEPT !.started = @ + 1]
          /\ UNCHANGED <<registeredTraces, requests>>
     ELSE IF ~IsRegistered(_traceKey)
     THEN /\ requests' = [requests EXCEPT !.traces = Bump(@, _traceKey)]
          /\ calls' = [calls EXCEPT ![p] =
               [pc |-> "register", op |-> "logTraceEvent",
                key |-> _traceKey, onError |-> onError]]
          /\ hist' = admit
          /\ UNCHANGED <<registeredTraces, last>>
     ELSE /\ requests' = [requests EXCEPT !.events = Bump(@, _traceKey)]
          /\ calls' = [calls EXCEPT ![p] =
               [pc |-> "event", op |-> "logTraceEvent",
                key |-> _traceKey, onError |-> onError]]
          /\ hist' = admit
          /\ UNCHANGED <<registeredTraces, last>>
  /\ UNCHANGED <<config, syncVars>>

(***************************************************************************)
(* The response of POST /traces arrives (L262-L293): on failure the call   *)
(* ends with "registerTrace err"; otherwise the key is cached and the      *)
(* event is posted.                                                        *)
(***************************************************************************)
\* the mutant of RegisterResponse: the key is cached before the status of the
\* response is looked at
RegisterResponseCachingFirst(p, r) ==
  LET c == calls[p] IN
  /\ c.pc = "register"
  /\ registeredTraces' = CacheAfterRegistration(c.key)
  /\ IF RequestFailed(r)
     THEN /\ Fail(p, "logTraceEvent", "registerTrace err", c.onError)
          /\ hist' = [hist EXCEPT !.netFailed = TRUE]
          /\ UNCHANGED requests
     ELSE /\ requests' = [requests EXCEPT !.events = Bump(@, c.key)]
          /\ calls' = [calls EXCEPT ![p].pc = "event"]
          /\ hist' = [hist EXCEPT !.registered = Bump(@, c.key)]
          /\ UNCHANGED last
  /\ UNCHANGED <<config, syncVars>>

RegisterResponse(p, r) ==
  LET c == calls[p] IN
  /\ c.pc = "register"
  /\ IF RequestFailed(r)
     THEN /\ Fail(p, "logTraceEvent", "registerTrace err", c.onError)
          /\ hist' = [hist EXCEPT !.netFailed = TRUE]
          /\ UNCHANGED <<registeredTraces, requests>>
     ELSE /\ registeredTraces' = CacheAfterRegistration(c.key)
          /\ requests' = [requests EXCEPT !.events = Bump(@, c.key)]
          /\ calls' = [calls EXCEPT ![p].pc = "event"]
          /\ hist' = [hist EXCEPT !.registered = Bump(@, c.key)]
          /\ UNCHANGED last
  /\ UNCHANGED <<config, syncVars>>

\* the mutant of EventResponse: a failed submission is posted again
EventResponseRetrying(p, r) ==
  LET c == calls[p] IN
  /\ c.pc = "event"
  /\ IF RequestFailed(r) \/ ~r.jsonBody
     THEN /\ requests' = [requests EXCEPT !.events = Bump(@, c.key)]
          /\ hist' = [hist EXCEPT !.netFailed = TRUE]
          /\ UNCHANGED <<calls, last>>
     ELSE /\ Succeed(p, "logTraceEvent")
          /\ UNCHANGED <<hist, requests>>
  /\ UNCHANGED <<config, syncVars, registeredTraces>>

(***************************************************************************)
(* The response of POST /events arrives (L295-L323).                       *)
(***************************************************************************)
EventResponse(p, r) ==
  LET c == calls[p] IN
  /\ c.pc = "event"
  /\ IF RequestFailed(r) \/ ~r.jsonBody
     THEN /\ Fail(p, "logTraceEvent", "logTraceEvent err", c.onError)
          /\ hist' = [hist EXCEPT !.netFailed = TRUE]
     ELSE /\ Succeed(p, "logTraceEvent")
          /\ UNCHANGED hist
  /\ UNCHANGED <<config, syncVars, registeredTraces, requests>>

(***************************************************************************)
(* deleteTrace up to its request (L342-L364).                              *)
(***************************************************************************)
DeleteTrace(p, traceKey, onError) ==
  LET _traceKey == applyTraceSuffix(traceKey)
      normalizedTraceKey == ToUpperCase(_traceKey)
  IN
  /\ FreeSlot(p)
  /\ hist' = [hist EXCEPT !.started = @ + 1]
  /\ IF DeleteTraceError(traceKey) # "none"
     THEN /\ Fail(p, "deleteTrace", DeleteTraceError(traceKey), onError)
          /\ UNCHANGED requests
     ELSE /\ requests' = [requests EXCEPT !.delete = Bump(@, normalizedTraceKey)]
          /\ calls' = [calls EXCEPT ![p] =
               [pc |-> "delete", op |-> "deleteTrace",
                key |-> normalizedTraceKey, onError |-> onError]]
          /\ UNCHANGED last
  /\ UNCHANGED <<config, syncVars, registeredTraces>>

(***************************************************************************)
(* The response of POST /traces/delete arrives (L366-L397): on a status    *)
(* below 400 the key of the request is evicted, then the body is read.     *)
(***************************************************************************)
DeleteResponse(p, r) ==
  LET c == calls[p] IN
  /\ c.pc = "delete"
  /\ IF RequestFailed(r)
     THEN /\ Fail(p, "deleteTrace", "deleteTrace err", c.onError)
          /\ hist' = [hist EXCEPT !.netFailed = TRUE]
          /\ UNCHANGED registeredTraces
     ELSE /\ registeredTraces' = CacheAfterDeletion(c.key)
          /\ IF r.jsonBody
             THEN /\ Succeed(p, "deleteTrace")
                  /\ hist' = [hist EXCEPT !.evicted =
                                IF c.key \in registeredTraces THEN Bump(@, c.key) ELSE @]
             ELSE /\ Fail(p, "deleteTrace", "deleteTrace err", c.onError)
                  /\ hist' = [hist EXCEPT !.netFailed = TRUE, !.evicted =
                                IF c.key \in registeredTraces THEN Bump(@, c.key) ELSE @]
  /\ UNCHANGED <<config, syncVars, requests>>

(***************************************************************************)
(* The sync loop (startTimeSync, L122-L169).  The constructor starts the   *)
(* first attempt, sync(true), which runs up to its request; Init is that   *)
(* state.                                                                  *)
(***************************************************************************)
Min(a, b) == IF a < b THEN a ELSE b

\* the mutant of incrementBackoff: the interval doubles
incrementBackoffDoubling(ts) ==
  [ts EXCEPT !.nextIntervalMs = Min(@ + @, MAX_SYNC_INTERVAL_MS)]

\* the mutant of incrementBackoff: the interval grows without a cap
incrementBackoffUncapped(ts) ==
  [ts EXCEPT !.nextIntervalMs = @ + BACKOFF_STEP_MS]

\* the mutant of incrementBackoff: the state is rebuilt from its initial
\* values instead of being spread from this.timeSync
incrementBackoffResetting(ts) ==
  [latency |-> Null, offset |-> Ms(0, 0), lastCheck |-> Null,
   nextIntervalMs |-> Min(ts.nextIntervalMs + BACKOFF_STEP_MS, MAX_SYNC_INTERVAL_MS)]

incrementBackoff(ts) ==
  [ts EXCEPT !.nextIntervalMs = Min(@ + BACKOFF_STEP_MS, MAX_SYNC_INTERVAL_MS)]

\* the mutant of SyncOutcome: the catch block never rethrows
SyncOutcomeAbsorbing(isInitial, r) ==
  IF r.failed \/ ~r.body.json THEN "threw"
  ELSE IF r.body.serverUtcMilliseconds # Null THEN "synced"
  ELSE "invalid payload"

\* the mutant of SyncOutcome: the catch block rethrows whatever the attempt
SyncOutcomeAlwaysRaising(isInitial, r) ==
  IF r.failed \/ ~r.body.json THEN "startup error"
  ELSE IF r.body.serverUtcMilliseconds # Null THEN "synced"
  ELSE "invalid payload"

\* the path one attempt takes through the try / catch of sync: the request or
\* the reading of the body throws (rethrown as the startup error by the first
\* attempt), or the payload holds a number, or it does not.  The status code
\* of the response is not looked at.
SyncOutcome(isInitial, r) ==
  IF r.failed \/ ~r.body.json THEN (IF isInitial THEN "startup error" ELSE "threw")
  ELSE IF r.body.serverUtcMilliseconds # Null THEN "synced"
  ELSE "invalid payload"

\* the mutant of ArmTimer: a timer is armed in the catch block and in the
\* finally block
ArmTimerTwice(task, delay) ==
  [task EXCEPT !.phase = "timer", !.timers = @ + 2, !.delay = delay]

\* the mutant of ArmTimer: the loop is re-armed at the base interval
ArmTimerAtBaseInterval(task, delay) ==
  [task EXCEPT !.phase = "timer", !.timers = @ + 1, !.delay = BASE_SYNC_INTERVAL_MS]

\* the finally block of sync: setTimeout(() => void sync(false), delay)
ArmTimer(task, delay) ==
  [task EXCEPT !.phase = "timer", !.timers = @ + 1, !.delay = delay]

\* an attempt is over: its async function has run to its end (or thrown)
AttemptOver(task) ==
  [task EXCEPT !.inFlight = @ - 1, !.isInitial = FALSE, !.sendTime = Null]

\* the response of GET /time arrives, read at receiveTime (L131-L164): the
\* state is updated and, in the finally block, the timer armed
SyncResponse(receiveTime, r) ==
  LET outcome == SyncOutcome(syncTask.isInitial, r)
      sendTime == syncTask.sendTime
      rtt == NumSub(receiveTime, sendTime)
      latency == NumHalf(rtt)
      serverUtcMilliseconds == r.body.serverUtcMilliseconds
      clientTimeAtServer == NumSub(receiveTime, latency)
      offset == NumSub(serverUtcMilliseconds, clientTimeAtServer)
      after ==
        CASE outcome = "synced" ->
               [latency |-> latency, offset |-> offset, lastCheck |-> receiveTime,
                nextIntervalMs |-> BASE_SYNC_INTERVAL_MS]
          [] outcome = "startup error" -> timeSync
          [] OTHER -> incrementBackoff(timeSync)
  IN
  /\ syncTask.inFlight > 0
  /\ timeSync' = after
  /\ syncTask' = ArmTimer(AttemptOver(syncTask), after.nextIntervalMs)
  /\ syncHist' = [outcome |-> outcome,
                  wasInitial |-> syncTask.isInitial,
                  startupErrors |-> IF outcome = "startup error"
                                    THEN syncHist.startupErrors + 1
                                    ELSE syncHist.startupErrors,
                  synced |-> IF outcome = "synced"
                             THEN [sendTime |-> sendTime, receiveTime |-> receiveTime,
                                   serverUtcMilliseconds |-> serverUtcMilliseconds]
                             ELSE syncHist.synced]
  /\ UNCHANGED <<config, callVars, probe>>

\* the timer fires and sync(false) runs up to its request (L161-L163, L124-L129)
SyncTimerFires(clock) ==
  /\ syncTask.timers > 0
  /\ syncTask' = [phase |-> "request", isInitial |-> FALSE,
                  sendTime |-> clock, delay |-> 0,
                  inFlight |-> syncTask.inFlight + 1, timers |-> syncTask.timers - 1]
  /\ UNCHANGED <<config, timeSync, syncHist, callVars, probe>>

DefaultTimestampReadings ==
  IF config.eventTimestampFunc THEN Timestamps ELSE ClockReadings

\* a caller calls logTraceEvent
CallLogTraceEvent ==
  /\ \E p \in Procs, traceKey \in TraceKeys, ts \in Timestamps \cup {Null},
        sender \in Senders, onError \in BOOLEAN, reading \in DefaultTimestampReadings :
       LogTraceEvent(p, traceKey, ts, sender, onError, reading)
  /\ UNCHANGED probe

\* a caller calls deleteTrace
CallDeleteTrace ==
  /\ \E p \in Procs, traceKey \in TraceKeys, onError \in BOOLEAN :
       DeleteTrace(p, traceKey, onError)
  /\ UNCHANGED probe

\* the server, or the transport, answers a suspended call
Respond ==
  /\ \/ \E p \in Procs, r \in Responses : RegisterResponse(p, r)
     \/ \E p \in Procs, r \in Responses : EventResponse(p, r)
     \/ \E p \in Procs, r \in Responses : DeleteResponse(p, r)
  /\ UNCHANGED probe

(***************************************************************************)
(* The same calls with their arguments recorded.  The effective timestamp  *)
(* and sender are worked out here from the arguments, the config and the   *)
(* clock as the documentation of logTraceEvent describes them (L192-L194): *)
(* the explicit value, else the configured default, else the synchronized  *)
(* clock.                                                                  *)
(***************************************************************************)
EffectiveTimestamp(ts, reading) ==
  IF ts # Null THEN ts
  ELSE IF config.eventTimestampFunc THEN reading
  ELSE NumAdd(reading, timeSync.offset)

EffectiveSender(sender) ==
  IF sender \notin {Undefined, ""} THEN sender ELSE config.sender

ObservedLogTraceEvent ==
  \E p \in Procs, traceKey \in TraceKeys, ts \in Timestamps \cup {Null},
     sender \in Senders, onError \in BOOLEAN, reading \in DefaultTimestampReadings :
    /\ LogTraceEvent(p, traceKey, ts, sender, onError, reading)
    /\ probe' = [op |-> "logTraceEvent", traceKey |-> traceKey,
                 eventTimestampUtc |-> EffectiveTimestamp(ts, reading),
                 eventSender |-> EffectiveSender(sender)]

ObservedDeleteTrace ==
  \E p \in Procs, traceKey \in TraceKeys, onError \in BOOLEAN :
    /\ DeleteTrace(p, traceKey, onError)
    /\ probe' = [op |-> "deleteTrace", traceKey |-> traceKey,
                 eventTimestampUtc |-> Null, eventSender |-> Undefined]

AllIdle == \A p \in Procs : calls[p].pc = "idle"

\* the time endpoint answers the attempt in flight
SyncResponds ==
  \E receiveTime \in ClockReadings, r \in TimeResponses : SyncResponse(receiveTime, r)

\* the client until its first sync timer fires: callers that may call while
\* other calls are suspended, and the first sync attempt
Next ==
  \/ hist.started < MaxOps /\ CallLogTraceEvent
  \/ hist.started < MaxOps /\ CallDeleteTrace
  \/ Respond
  \/ SyncResponds

Spec == Init /\ [][Next]_vars

\* callers that await each call before the next
NextSeq ==
  \/ hist.started < MaxSeqOps /\ AllIdle /\ CallLogTraceEvent
  \/ hist.started < MaxSeqOps /\ AllIdle /\ CallDeleteTrace
  \/ Respond

SpecSeq == Init /\ [][NextSeq]_vars

\* callers that await each call before the next, while the first sync attempt
\* runs
NextObserved ==
  \/ hist.started < MaxObservedOps /\ AllIdle /\ ObservedLogTraceEvent
  \/ hist.started < MaxObservedOps /\ AllIdle /\ ObservedDeleteTrace
  \/ Respond
  \/ SyncResponds /\ UNCHANGED probe

\* the routing of errors and the suffix of the keys play no part before the
\* first request of a call
InitObserved == Init /\ ~config.onError /\ config.traceSuffix = <<>>

SpecObserved == InitObserved /\ [][NextObserved]_vars

\* callers that await each call before the next, while the sync loop runs in
\* the background, followed while its interval is short
NextBackground ==
  \/ hist.started < MaxBackgroundOps /\ AllIdle /\ CallLogTraceEvent
  \/ hist.started < MaxBackgroundOps /\ AllIdle /\ CallDeleteTrace
  \/ Respond
  \/ SyncResponds /\ UNCHANGED probe
  \/ /\ timeSync.nextIntervalMs <= MaxBackgroundIntervalMs
     /\ \E clock \in ClockReadings : SyncTimerFires(clock)

\* a client with both defaults and a client-wide handler, whose timestamps
\* come from the synchronized clock
InitBackground ==
  /\ Init
  /\ config = [apiKey |-> "key", sender |-> "svc", onError |-> TRUE,
               traceSuffix |-> <<>>, eventTimestampFunc |-> FALSE]

SpecBackground == InitBackground /\ [][NextBackground]_vars

\* the sync loop alone, for the life of the process; it reads nothing of the
\* config
InitSync ==
  /\ Init
  /\ config = [apiKey |-> Undefined, sender |-> Undefined, onError |-> FALSE,
               traceSuffix |-> <<>>, eventTimestampFunc |-> FALSE]

NextSync ==
  \/ SyncResponds
  \/ \E clock \in ClockReadings : SyncTimerFires(clock)

SpecSync == InitSync /\ [][NextSync]_vars

\* the sync loop where every timer armed fires (setTimeout) and every request
\* of the time endpoint returns, with a response or with a throw
SpecSyncLive ==
  /\ InitSync
  /\ [][NextSync]_vars
  /\ WF_vars(SyncResponds)
  /\ WF_vars(\E clock \in ClockReadings : SyncTimerFires(clock))

(***************************************************************************)
(* Properties.                                                             *)
(***************************************************************************)
NoDeleteIssued == \A k \in Keys : requests.delete[k] = 0

\* the logTraceEvent calls for key k that wait for their registration
RegisteringFor(k) ==
  Cardinality({p \in Procs : calls[p].op = "logTraceEvent"
                               /\ calls[p].pc = "register" /\ calls[p].key = k})

\* p starts a logTraceEvent call that gets past the validation of its arguments
Admitted(p) == calls[p].pc = "idle" /\ calls'[p].op = "logTraceEvent"

\* C1: while the logTraceEvent calls for a fully-qualified key k have run one
\* after another, every network call has succeeded and no deleteTrace request
\* was issued, the n >= 1 calls for k that got past the validation of their
\* arguments have issued exactly one POST /traces and exactly n POST /events
\* (n - 1 while the first call still waits for its registration), and an event
\* is submitted only once the registration has succeeded.
C1_OneRegistrationThenEvents ==
  \A k \in Keys :
    (k \notin hist.overlapped /\ ~hist.netFailed /\ NoDeleteIssued) =>
      /\ requests.traces[k] = (IF hist.admitted[k] >= 1 THEN 1 ELSE 0)
      /\ requests.events[k] = hist.admitted[k] - RegisteringFor(k)
      /\ requests.events[k] >= 1 => hist.registered[k] = 1

C1_Witness ==
  \E k \in Keys :
    /\ k \notin hist.overlapped /\ ~hist.netFailed /\ NoDeleteIssued
    /\ hist.admitted[k] = 2 /\ requests.traces[k] = 1 /\ requests.events[k] = 2
    /\ \A p \in Procs : calls[p].pc = "idle"

\* C2: when the response of a registration call is a failure (request()
\* throws, or status >= 400), the call ends with the error "registerTrace err",
\* the cache is left as it is, no POST /events (no request at all) is issued;
\* and every logTraceEvent call that gets past validation while its key is
\* not in the cache issues a registration call.
C2_FailedRegistrationNotCached ==
  [][ /\ \A p \in Procs, r \in Responses :
           ( /\ calls[p].pc = "register"
             /\ (r.failed \/ r.statusCode >= 400)
             /\ RegisterResponse(p, r) ) =>
               /\ last'.op = "logTraceEvent"
               /\ last'.error = "registerTrace err"
               /\ registeredTraces' = registeredTraces
               /\ requests' = requests
               /\ calls'[p].pc = "idle"
      /\ \A p \in Procs :
           (Admitted(p) /\ calls'[p].key \notin registeredTraces) =>
               /\ calls'[p].pc = "register"
               /\ requests'.traces[calls'[p].key] = requests.traces[calls'[p].key] + 1
    ]_vars

C2_Witness ==
  \E k \in Keys :
    /\ last.error = "registerTrace err"
    /\ requests.traces[k] = 2 /\ hist.registered[k] = 0 /\ requests.events[k] = 0
    /\ k \notin registeredTraces

\* C3: a logTraceEvent whose effective timestamp is below 1665000000000 or
\* above 2565000000000, or whose effective sender is absent, ends at once with
\* a validation error, issues no request and leaves the cache and the other
\* calls as they are; every other logTraceEvent (the two bounds included)
\* gets past validation and issues its first request.
C3_ValidationBeforeNetwork ==
  [][ (hist'.started # hist.started /\ probe'.op = "logTraceEvent") =>
        LET ts == probe'.eventTimestampUtc
            invalid == \/ NumLt(ts, Ms(1665, 0))
                       \/ NumLt(Ms(2565, 0), ts)
                       \/ probe'.eventSender = Undefined
        IN  IF invalid
            THEN /\ requests' = requests
                 /\ registeredTraces' = registeredTraces
                 /\ calls' = calls
                 /\ last'.op = "logTraceEvent"
                 /\ last'.error \in {"eventTimestampUtc out of range",
                                     "eventSender is required"}
            ELSE /\ \E p \in Procs : Admitted(p)
                 /\ requests' # requests
                 /\ last' = last
    ]_vars

C3_Witness ==
  /\ probe.op = "logTraceEvent"
  /\ probe.eventTimestampUtc = Ms(1664, 999999999)
  /\ last.op = "logTraceEvent"
  /\ last.error = "eventTimestampUtc out of range"
  /\ registeredTraces # {}
  /\ hist.started = 2

\* C4: every call that ended with an error invoked its own handler once and
\* nothing else, if it was given one; else the client-wide handler once, if one
\* is configured; else it rejected; a handler was invoked or the call rejected,
\* never both.  A call that ended without error invoked no handler.
C4_ErrorRouting ==
  /\ last.error # "none" =>
       /\ last.onError =>
            last.perCall = 1 /\ last.default = 0 /\ ~last.rejected
       /\ (~last.onError /\ config.onError) =>
            last.perCall = 0 /\ last.default = 1 /\ ~last.rejected
       /\ (~last.onError /\ ~config.onError) =>
            last.perCall = 0 /\ last.default = 0 /\ last.rejected
  /\ last.error = "none" =>
       last.perCall = 0 /\ last.default = 0 /\ ~last.rejected

C4_Witness ==
  /\ last.op = "deleteTrace" /\ last.error = "deleteTrace err"
  /\ last.onError /\ config.onError
  /\ last.perCall = 1 /\ last.default = 0 /\ ~last.rejected

\* C5: a deleteTrace on a client without API key, or with an empty trace key,
\* ends at once with an error, issues no request and leaves the cache and the
\* other calls as they are.
C5_DeleteTraceChecksFirst ==
  [][ \A p \in Procs, traceKey \in TraceKeys, onError \in BOOLEAN :
        ( /\ calls[p].pc = "idle"
          /\ (config.apiKey \in {Undefined, ""} \/ traceKey = <<>>)
          /\ DeleteTrace(p, traceKey, onError) ) =>
            /\ requests' = requests
            /\ registeredTraces' = registeredTraces
            /\ calls' = calls
            /\ last'.op = "deleteTrace"
            /\ last'.error = (IF config.apiKey \in {Undefined, ""}
                              THEN "API key is required for deleteTrace"
                              ELSE "traceKey is required")
    ]_vars

C5_Witness ==
  /\ last.op = "deleteTrace"
  /\ last.error = "API key is required for deleteTrace"
  /\ registeredTraces # {}
  /\ NoDeleteIssued

\* C6 as stated: while no two logTraceEvent calls have overlapped, at most one
\* registration call per key has succeeded, whatever else was called.
C6_Original ==
  ~hist.anyOverlap => \A k \in Keys : hist.registered[k] <= 1

\* C6, amended: while no two logTraceEvent calls have overlapped, the
\* registration calls that have succeeded for a key are at most one more than
\* the deleteTrace responses that evicted that key from the cache.
C6_OneRegistrationPerEviction ==
  ~hist.anyOverlap => \A k \in Keys : hist.registered[k] <= 1 + hist.evicted[k]

C6_Witness ==
  /\ ~hist.anyOverlap
  /\ hist.registered[<<"A">>] = 2
  /\ hist.evicted[<<"A">>] = 1

\* C7: a deleteTrace that gets past its checks sends the upper-cased trace key
\* with suffix to /traces/delete; when the response is a success that key is
\* not in the cache afterwards and every other entry is kept; when the response
\* is a failure (request() throws, or status >= 400) the cache is unchanged.
C7_DeleteEvictsUpperCasedKey ==
  [][ /\ \A p \in Procs, traceKey \in TraceKeys, onError \in BOOLEAN :
           ( /\ calls[p].pc = "idle"
             /\ DeleteTrace(p, traceKey, onError)
             /\ calls'[p].pc = "delete" ) =>
               LET sent == ToUpperCase(traceKey \o config.traceSuffix) IN
               /\ calls'[p].key = sent
               /\ requests'.delete[sent] = requests.delete[sent] + 1
      /\ \A p \in Procs, r \in Responses :
           (calls[p].pc = "delete" /\ DeleteResponse(p, r)) =>
               IF r.failed \/ r.statusCode >= 400
               THEN /\ registeredTraces' = registeredTraces
                    /\ last'.error = "deleteTrace err"
               ELSE /\ calls[p].key \notin registeredTraces'
                    /\ \A k \in Keys \ {calls[p].key} :
                         k \in registeredTraces' <=> k \in registeredTraces
                    /\ r.jsonBody => last'.error = "none"
    ]_vars

C7_Witness ==
  /\ last.op = "deleteTrace" /\ last.error = "none"
  /\ hist.evicted[<<"A">>] = 1
  /\ registeredTraces = {<<>>}

\* C8: a logTraceEvent call never has more events submitted than calls were
\* admitted; when the response of its event submission is a failure (request()
\* throws, or status >= 400) the call ends with the error "logTraceEvent err",
\* which goes to exactly one of the two handlers or the caller; nothing is
\* posted again and the cache is left as it is; and a logTraceEvent call whose
\* key is in the cache issues no registration call.
C8_FailedSubmissionNotRetried ==
  [][ /\ \A k \in Keys : requests'.events[k] <= hist'.admitted[k]
      /\ \A p \in Procs, r \in Responses :
           ( /\ calls[p].pc = "event"
             /\ (r.failed \/ r.statusCode >= 400)
             /\ EventResponse(p, r) ) =>
               /\ last'.op = "logTraceEvent"
               /\ last'.error = "logTraceEvent err"
               /\ last'.perCall + last'.default + (IF last'.rejected THEN 1 ELSE 0) = 1
               /\ requests' = requests
               /\ registeredTraces' = registeredTraces
               /\ calls'[p].pc = "idle"
      /\ \A p \in Procs :
           (Admitted(p) /\ calls'[p].key \in registeredTraces) =>
               /\ calls'[p].pc = "event"
               /\ requests'.traces = requests.traces
    ]_vars

C8_Witness ==
  \E k \in Keys :
    /\ last.op = "logTraceEvent" /\ last.error = "logTraceEvent err"
    /\ k \in registeredTraces
    /\ hist.admitted[k] = 2 /\ requests.traces[k] = 1 /\ requests.events[k] = 2

\* a /time response that does not lead to a sync: request() throws, the body
\* is no JSON, or it holds no number
TimeRequestThrew(r) == r.failed \/ ~r.body.json
TimePayloadInvalid(r) ==
  ~r.failed /\ r.body.json /\ r.body.serverUtcMilliseconds = Null

C10_OffsetOfLastSync ==
  /\ syncHist.synced = Null =>
       /\ timeSync.offset = Ms(0, 0)
       /\ timeSync.latency = Null
       /\ timeSync.lastCheck = Null
  /\ syncHist.synced # Null =>
       /\ NumAdd(timeSync.latency, timeSync.latency)
            = NumSub(syncHist.synced.receiveTime, syncHist.synced.sendTime)
       /\ NumAdd(timeSync.offset,
                 NumSub(syncHist.synced.receiveTime, timeSync.latency))
            = syncHist.synced.serverUtcMilliseconds
       /\ timeSync.lastCheck = syncHist.synced.receiveTime
  /\ syncHist.outcome = "synced" => timeSync.nextIntervalMs = 30000
  /\ \A clock \in ClockReadings : NumSub(now(clock), clock) = timeSync.offset

C10_Witness ==
  /\ syncHist.outcome = "synced"
  /\ syncHist.synced.sendTime = Ms(1700, 0)
  /\ syncHist.synced.receiveTime = Ms(1700, 51)
  /\ syncHist.synced.serverUtcMilliseconds = Ms(1700, 100)
  /\ timeSync.latency = [hi |-> 0, lo |-> 25, half |-> 1]
  /\ timeSync.offset = [hi |-> 0, lo |-> 74, half |-> 1]
  /\ now(Ms(1700, 0)) = [hi |-> 1700, lo |-> 74, half |-> 1]

\* C11: in every reachable state nextIntervalMs lies in [30000, 180000].
C11_IntervalInRange ==
  /\ timeSync.nextIntervalMs >= 30000
  /\ timeSync.nextIntervalMs <= 180000

C11_Witness ==
  /\ timeSync.nextIntervalMs = 180000
  /\ syncHist.outcome \in {"threw", "invalid payload"}
  /\ syncTask.timers = 1 /\ syncTask.delay = 180000

\* a sync attempt failed: the request or the reading of the body threw, or the
\* payload holds no number
TimeAttemptFailed(r) == TimeRequestThrew(r) \/ TimePayloadInvalid(r)

C13_FailureKeepsOffset ==
  [][ \A receiveTime \in ClockReadings, r \in TimeResponses :
        ( /\ syncTask.inFlight > 0
          /\ TimeAttemptFailed(r)
          /\ SyncResponse(receiveTime, r) ) =>
            /\ timeSync'.offset = timeSync.offset
            /\ timeSync'.latency = timeSync.latency
            /\ timeSync'.lastCheck = timeSync.lastCheck
            /\ DOMAIN timeSync' = DOMAIN timeSync
    ]_vars

C13_Witness ==
  /\ syncHist.outcome \in {"threw", "invalid payload"}
  /\ syncHist.synced # Null
  /\ timeSync.offset = [hi |-> 0, lo |-> 74, half |-> 1]
  /\ timeSync.lastCheck = Ms(1700, 51)
  /\ timeSync.nextIntervalMs = 60000

\* C14: a response of the time endpoint with status >= 400 is a failed
\* attempt whatever its body: offset, latency and lastCheck are left as they
\* are and nextIntervalMs is not set back to 30000.
C14_ErrorStatusIsFailure ==
  [][ \A receiveTime \in ClockReadings, r \in TimeResponses :
        ( /\ syncTask.inFlight > 0
          /\ ~r.failed /\ r.statusCode >= 400
          /\ SyncResponse(receiveTime, r) ) =>
            /\ timeSync'.offset = timeSync.offset
            /\ timeSync'.latency = timeSync.latency
            /\ timeSync'.lastCheck = timeSync.lastCheck
            /\ timeSync'.nextIntervalMs >= timeSync.nextIntervalMs
    ]_vars

\* C15: at any moment at most one sync attempt is in flight and at most one
\* timer is pending, and never both.
C15_OneAttemptOrOneTimer ==
  /\ syncTask.inFlight \in {0, 1}
  /\ syncTask.timers \in {0, 1}
  /\ ~(syncTask.inFlight = 1 /\ syncTask.timers = 1)

C15_Witness ==
  /\ syncTask.inFlight = 1 /\ syncTask.timers = 0
  /\ ~syncTask.isInitial
  /\ syncHist.startupErrors = 1

\* C16: every sync attempt that completes, whatever its outcome, arms exactly
\* one timer, with the delay nextIntervalMs has after the attempt; and, every
\* timer firing and every request returning, attempts are started again and
\* again.
C16_AlwaysRearmed ==
  /\ [][ syncTask'.inFlight < syncTask.inFlight =>
           /\ syncTask'.timers = syncTask.timers + 1
           /\ syncTask'.delay = timeSync'.nextIntervalMs ]_vars
  /\ []<>(syncTask.inFlight = 1)
  /\ []<>(syncTask.timers = 1)

C16_Witness ==
  /\ syncHist.outcome = "startup error"
  /\ syncTask.timers = 1 /\ syncTask.inFlight = 0
  /\ syncTask.delay = 30000

\* C17: a failed sync attempt after the first invokes no error handler, ends
\* no logTraceEvent or deleteTrace call, raises no error, and changes nothing
\* of the client but nextIntervalMs.
C17_LaterFailuresAbsorbed ==
  [][ (syncTask'.inFlight < syncTask.inFlight /\ ~syncTask.isInitial) =>
      \A receiveTime \in ClockReadings, r \in TimeResponses :
        (TimeAttemptFailed(r) /\ SyncResponse(receiveTime, r)) =>
            /\ last' = last
            /\ calls' = calls
            /\ requests' = requests
            /\ registeredTraces' = registeredTraces
            /\ config' = config
            /\ syncHist'.startupErrors = syncHist.startupErrors
            /\ timeSync' = [timeSync EXCEPT !.nextIntervalMs = timeSync'.nextIntervalMs]
    ]_vars

C17_Witness ==
  /\ ~syncHist.wasInitial /\ syncHist.outcome = "threw"
  /\ timeSync.nextIntervalMs = 45000
  /\ last.op = "logTraceEvent" /\ last.error = "none"
  /\ \E p \in Procs : calls[p].pc = "event"

\* a response with a status below 400
Answered(r) == ~r.failed /\ r.statusCode < 400

\* C18 as stated: the cache gains a key only when the registration call of a
\* logTraceEvent succeeds, and loses a key only in a deleteTrace call that
\* completes successfully; no other step changes it.
C18_Original ==
  [][ registeredTraces' # registeredTraces =>
      \A k \in Keys :
        /\ (k \in registeredTraces' /\ k \notin registeredTraces) =>
             \E p \in Procs, r \in Responses :
               /\ calls[p].op = "logTraceEvent" /\ calls[p].key = k
               /\ Answered(r) /\ RegisterResponse(p, r)
        /\ (k \in registeredTraces /\ k \notin registeredTraces') =>
             \E p \in Procs :
               /\ calls[p].op = "deleteTrace" /\ calls[p].key = k
               /\ calls'[p].pc = "idle"
               /\ last'.op = "deleteTrace" /\ last'.error = "none"
    ]_vars

\* C18, amended: the cache gains a key only when the registration call of a
\* logTraceEvent succeeds, and loses a key only when the request of a
\* deleteTrace for that key is answered with a status below 400, whether that
\* call then returns or fails on reading the response body; no other step
\* changes it.
C18_CacheChangesOnlyOnAnswers ==
  [][ registeredTraces' # registeredTraces =>
      \A k \in Keys :
        /\ (k \in registeredTraces' /\ k \notin registeredTraces) =>
             \E p \in Procs, r \in Responses :
               /\ calls[p].op = "logTraceEvent" /\ calls[p].key = k
               /\ Answered(r) /\ RegisterResponse(p, r)
        /\ (k \in registeredTraces /\ k \notin registeredTraces') =>
             \E p \in Procs, r \in Responses :
               /\ calls[p].op = "deleteTrace" /\ calls[p].key = k
               /\ Answered(r) /\ DeleteResponse(p, r)
    ]_vars

C18_Witness ==
  /\ last.op = "deleteTrace" /\ last.error = "deleteTrace err"
  /\ hist.registered[<<"A">>] = 1
  /\ hist.evicted[<<"A">>] = 1
  /\ registeredTraces = {}

\* a key that its upper-cased form differs from
HasLowerCase(k) == \E i \in 1..Len(k) : UpperChar(k[i]) # k[i]

\* C19: a key of the cache that differs from its upper-cased form is never
\* removed from it, whatever deleteTrace is answered, and a logTraceEvent for
\* such a key in the cache issues no registration call.
C19_MixedCaseKeyStaysCached ==
  [][ \A k \in Keys : HasLowerCase(k) =>
        /\ k \in registeredTraces => k \in registeredTraces'
        /\ \A p \in Procs :
             (Admitted(p) /\ calls'[p].key = k /\ k \in registeredTraces) =>
               requests'.traces[k] = requests.traces[k]
    ]_vars

C19_Witness ==
  /\ last.op = "deleteTrace" /\ last.error = "none"
  /\ requests.delete[<<"A", "T">>] = 1
  /\ hist.registered[<<"A", "t">>] = 1
  /\ <<"A", "t">> \in registeredTraces

\* C20: a logTraceEvent call that finds its key absent from the cache while
\* another call is registering the same key issues a registration call of
\* its own, so that two are in flight at once; and a key that was registered,
\* once or twice, and not evicted is in the cache.
C20_DuplicateRegistration ==
  /\ [][ \A p \in Procs :
           ( /\ Admitted(p)
             /\ calls'[p].key \notin registeredTraces
             /\ RegisteringFor(calls'[p].key) >= 1 ) =>
               /\ calls'[p].pc = "register"
               /\ requests'.traces[calls'[p].key] = requests.traces[calls'[p].key] + 1
               /\ \E q \in Procs \ {p} :
                    calls'[q].pc = "register" /\ calls'[q].key = calls'[p].key
       ]_vars
  /\ [](\A k \in Keys :
          (hist.registered[k] >= 1 /\ hist.evicted[k] = 0) => k \in registeredTraces)

C20_Witness ==
  \E k \in Keys :
    /\ hist.registered[k] = 2 /\ requests.traces[k] = 2
    /\ k \in hist.overlapped
    /\ k \in registeredTraces
    /\ NoDeleteIssued

\* C21: whenever a logTraceEvent call issues its event-submission call, the
\* fully-qualified trace key of that call is in the registration cache at
\* that moment, whatever deleteTrace calls are in progress.
C21_EventOnlyForCachedKey ==
  [][ requests'.events # requests.events =>
      /\ \A k \in Keys :
           requests'.events[k] > requests.events[k] => k \in registeredTraces'
      /\ \A p \in Procs :
           (calls'[p].pc = "event" /\ calls[p].pc # "event") =>
             /\ calls'[p].key \in registeredTraces'
             /\ requests'.events[calls'[p].key] = requests.events[calls'[p].key] + 1
    ]_vars

C21_Witness ==
  \E p, q \in Procs :
    /\ calls[p].pc = "event" /\ calls[p].key \in registeredTraces
    /\ calls[q].pc = "delete" /\ calls[q].key = calls[p].key
    /\ hist.registered[calls[p].key] = 1
    /\ requests.events[calls[p].key] = 1

====
